---- MODULE Spec2Model ----
(***************************************************************************)
(* Job scheduling and task execution of the web scraper: the Celery tasks  *)
(* scrape_url_task and scrape_multiple_urls_task, the ScrapingScheduler    *)
(* (job table + beat schedule), the result store and the WebScraper.       *)
(***************************************************************************)
EXTENDS Integers, Sequences, FiniteSets, TLC

\* ------------------------------------------------------------------ bounds
MaxOps == 2         \* jobs scheduled + tasks enqueued + direct scrapes
MaxJobs == 2        \* schedule_url calls
MaxBatch == 2       \* longest url list given to run_batch_scrape
MaxTasks == 3        \* messages sent to one worker (worker pool runs)
MaxElements == 11    \* <a> (or <img>) elements of a page
MaxDirect == 1      \* direct scrapes (main.scrape_single_url) and direct inserts
MaxPolled == 1      \* tasks sent while a client polls
MaxCallers == 2     \* threads that call one ScrapingScheduler at a time

\* ------------------------------------------------------- program constants
max_retries == 3            \* @celery_app.task(bind=True, max_retries=3)
base_delay == 60            \* countdown=60 * (2 ** retries)
Concurrency == 2            \* worker --concurrency=2

Urls == {"a", "b"}
\* The (url, use_selenium) pairs given to the single-target operations.
Targets == {<<"a", FALSE>>, <<"b", TRUE>>}
\* What the network does when a target is fetched.
FetchOutcomes == {"ok", "transport_error", "timeout", "http_error"}

None == [tag |-> "None"]

RECURSIVE Pow2(_)
Pow2(k) == IF k = 0 THEN 1 ELSE 2 * Pow2(k - 1)

\* The url lists given to the batch operation: a, b, a, ... cut at each
\* length up to MaxBatch.
UrlList(n) == [i \in 1..n |-> IF i % 2 = 1 THEN "a" ELSE "b"]
UrlLists == {UrlList(n) : n \in 0..MaxBatch}
\* The (urls, use_selenium) pairs given to the batch operation.
Batches == {<<urls, FALSE>> : urls \in UrlLists} \cup {<< <<"b">>, TRUE >>}

\* ------------------------------------------------------------ the scraper
\* Classes that define __enter__/__exit__: WebScraper does, ScrapingManager
\* does not, so "with ScrapingManager(...)" raises before its body runs.
ContextManagers == {"WebScraper"}

SupportsWith(cls) == cls \in ContextManagers

\* f'error: {str(e)}'
ErrorStatus(cause) == <<"error:", cause>>
SuccessStatus == <<"success">>

\* A metadata dict: its keys, with the page's values left abstract.
Metadata(keys) == [k \in keys |-> "v"]
\* WebScraper._extract_metadata (a page without meta tags)
_extract_metadata == Metadata({"links", "images", "status_code", "content_type"})
\* WebScraper._extract_metadata_selenium
_extract_metadata_selenium == Metadata({"links", "images"})

\* ------------------------------------------- content and metadata of a page
\* Faulty variant: article is tried before main.
content_selectors_article_first ==
    <<"article", "main", ".content", ".main-content",
      "#content", "#main", ".post-content", ".entry-content">>

\* content_selectors of _extract_content and of _extract_content_selenium
\* (the two lists are the same).
content_selectors ==
    <<"main", "article", ".content", ".main-content",
      "#content", "#main", ".post-content", ".entry-content">>

\* A page as the extraction sees it: the selectors that match one of its
\* elements, and its <a> and <img> elements in document order, each given
\* by its href (src) value, 0 when it has none.
Page(matches, anchors, imgs) == [matches |-> matches, anchors |-> anchors, imgs |-> imgs]

\* node.get_text(separator=' ', strip=True): all text below the node ("document"
\* is the soup itself, head included).
get_text(node) == <<"get_text", node>>
\* WebElement.text.strip(): the rendered text below the node; the rendered
\* text of the document is that of its body.
element_text(node) == <<"text", IF node = "document" THEN "body" ELSE node>>

\* for selector in content_selectors: the first one that matches, 0 if none.
RECURSIVE first_match(_, _, _)
first_match(selectors, matches, i) ==
    IF i > Len(selectors) THEN 0
    ELSE IF selectors[i] \in matches THEN i
    ELSE first_match(selectors, matches, i + 1)

\* WebScraper._extract_content
_extract_content(page) ==
    LET i == first_match(content_selectors, page.matches, 1)
    IN IF i # 0 THEN get_text(content_selectors[i]) ELSE get_text("document")

\* WebScraper._extract_content_selenium
_extract_content_selenium(page) ==
    LET i == first_match(content_selectors, page.matches, 1)
    IN IF i # 0 THEN element_text(content_selectors[i]) ELSE element_text("body")

\* elements[:10]
FirstTen(elements) == SubSeq(elements, 1, IF Len(elements) < 10 THEN Len(elements) ELSE 10)

\* _extract_metadata: soup.find_all('a', href=True) (find_all('img', src=True))
\* keeps the elements that have the attribute, then [:10] is taken.
links_or_images(elements) == FirstTen(SelectSeq(elements, LAMBDA e : e # 0))

\* _extract_metadata_selenium: find_elements(By.TAG_NAME, "a") ("img") gives
\* every element, [:10] is taken, then those without the attribute are
\* left out.
links_or_images_selenium(elements) == SelectSeq(FirstTen(elements), LAMBDA e : e # 0)

\* metadata['links'] and metadata['images'] of _extract_metadata
extract_links_images(page) ==
    [links |-> links_or_images(page.anchors), images |-> links_or_images(page.imgs)]

\* metadata['links'] and metadata['images'] of _extract_metadata_selenium
extract_links_images_selenium(page) ==
    [links |-> links_or_images_selenium(page.anchors),
     images |-> links_or_images_selenium(page.imgs)]

\* The pages given to the extraction: every set of matching selectors, and
\* every list of up to MaxElements <a> (or <img>) elements of which any may
\* lack its href (src).
ElementLists ==
    UNION {{[i \in 1..n |-> IF has[i] THEN i ELSE 0] : has \in [1..n -> BOOLEAN]} :
           n \in 0..MaxElements}
Selectors == {content_selectors[i] : i \in DOMAIN content_selectors}
Pages ==
    {Page(matches, <<>>, <<>>) : matches \in SUBSET Selectors}
    \cup {Page({}, elements, <<>>) : elements \in ElementLists}
    \cup {Page({}, <<>>, elements) : elements \in ElementLists}

\* WebScraper.scrape_with_requests: every exception of the fetch is caught
\* and turned into a returned record with an error status.
scrape_with_requests(url, outcome) ==
    IF outcome = "ok"
    THEN [url |-> url, title |-> "T", content |-> "C", metadata |-> _extract_metadata,
          source |-> "requests", status |-> SuccessStatus]
    ELSE [url |-> url, title |-> "", content |-> "", metadata |-> Metadata({}),
          source |-> "requests", status |-> ErrorStatus(outcome)]

\* What driver.get() and the wait for <body> raise on: a connection that
\* fails and a page that does not load in time.  An HTTP error status is no
\* exception for the browser: the error page is loaded and scraped.
SeleniumRaises == {"transport_error", "timeout"}

\* Faulty variant: the record of a failed dynamic fetch has no metadata.
scrape_with_selenium_no_metadata(url, driver, outcome) ==
    IF ~driver
    THEN [url |-> url, title |-> "", content |-> "", metadata |-> Metadata({}),
          source |-> "selenium", status |-> ErrorStatus("Selenium not initialized")]
    ELSE IF outcome \notin SeleniumRaises
    THEN [url |-> url, title |-> "T", content |-> "C",
          metadata |-> _extract_metadata_selenium,
          source |-> "selenium", status |-> SuccessStatus]
    ELSE [url |-> url, title |-> "", content |-> "",
          source |-> "selenium", status |-> ErrorStatus(outcome)]

\* WebScraper.scrape_with_selenium: without a driver an error record; else
\* the loaded page (the site's error page included) as a success record,
\* and an error record when the load raises.
scrape_with_selenium(url, driver, outcome) ==
    IF ~driver
    THEN [url |-> url, title |-> "", content |-> "", metadata |-> Metadata({}),
          source |-> "selenium", status |-> ErrorStatus("Selenium not initialized")]
    ELSE IF outcome \notin SeleniumRaises
    THEN [url |-> url, title |-> "T", content |-> "C",
          metadata |-> _extract_metadata_selenium,
          source |-> "selenium", status |-> SuccessStatus]
    ELSE [url |-> url, title |-> "", content |-> "", metadata |-> Metadata({}),
          source |-> "selenium", status |-> ErrorStatus(outcome)]

\* How _setup_selenium ends: the driver is created and configured; creating
\* it raises (self.driver stays None); or the driver is created and assigned
\* and set_page_load_timeout raises after that.
DriverSetups == {"ok", "create_raises", "configure_raises"}

\* WebScraper.__init__ + _setup_selenium: the except branch clears
\* use_selenium only, a driver already assigned stays; the scraper is
\* [use_selenium, driver].
WebScraper(use_selenium, setup) ==
    IF use_selenium
    THEN [use_selenium |-> setup = "ok", driver |-> setup # "create_raises"]
    ELSE [use_selenium |-> FALSE, driver |-> FALSE]

\* WebScraper.close: a driver that exists is quit.
close(scraper) == [quit |-> scraper.driver, scraper |-> [scraper EXCEPT !.driver = FALSE]]

\* WebScraper.scrape
scrape(scraper, url, outcome) ==
    IF scraper.use_selenium
    THEN scrape_with_selenium(url, scraper.driver, outcome)
    ELSE scrape_with_requests(url, outcome)

\* ------------------------------------------------------- the result store
\* Faulty variant: the status column is left to its default.
insert_scraped_data_default_status(table, data) ==
    LET id == Len(table) + 1
        row == [id |-> id, url |-> data.url, title |-> data.title,
                content |-> data.content, metadata |-> data.metadata,
                source |-> data.source,
                status |-> <<"success">>]
    IN [table |-> Append(table, row), lastrowid |-> id]

\* Faulty variant: INSERT OR REPLACE keyed by url: a second result for a url
\* overwrites the row of the first.
insert_scraped_data_replaces(table, data) ==
    LET same == {i \in DOMAIN table : table[i].url = data.url}
        id == IF same = {} THEN Len(table) + 1 ELSE CHOOSE i \in same : TRUE
        row == [id |-> id, url |-> data.url, title |-> data.title,
                content |-> data.content, metadata |-> data.metadata,
                source |-> data.source, status |-> data.status]
    IN [table |-> IF same = {} THEN Append(table, row) ELSE [table EXCEPT ![id] = row],
        lastrowid |-> id]

\* DatabaseManager.insert_scraped_data: one INSERT, AUTOINCREMENT id,
\* status defaults to 'success'; returns [table, lastrowid].
insert_scraped_data(table, data) ==
    LET id == Len(table) + 1
        row == [id |-> id, url |-> data.url, title |-> data.title,
                content |-> data.content, metadata |-> data.metadata,
                source |-> data.source,
                status |-> data.status]
    IN [table |-> Append(table, row), lastrowid |-> id]

\* DatabaseManager.add_scraping_job: INSERT (url, schedule); status defaults
\* to 'active', created_at to CURRENT_TIMESTAMP (now, in whole seconds),
\* last_run and next_run stay NULL.
add_scraping_job(table, url, schedule, now) ==
    LET id == Len(table) + 1
        row == [id |-> id, url |-> url, schedule |-> schedule,
                last_run |-> "NULL", next_run |-> "NULL", status |-> "active",
                created_at |-> now]
    IN [table |-> Append(table, row), lastrowid |-> id]

\* CURRENT_TIMESTAMP at the next insert into scraping_jobs: the second of
\* the previous insert, or a later one.
Timestamps(table) ==
    IF table = <<>> THEN {1}
    ELSE {table[Len(table)].created_at, table[Len(table)].created_at + 1}

\* Faulty variant: the row is deleted instead of being marked.
update_job_status_deletes_row(table, job_id, status) ==
    SelectSeq(table, LAMBDA row : row.id # job_id)

\* Faulty variant: the UPDATE has no WHERE clause.
update_job_status_all_rows(table, job_id, status) ==
    [i \in DOMAIN table |-> [table[i] EXCEPT !.status = status]]

\* DatabaseManager.update_job_status without last_run:
\* UPDATE scraping_jobs SET status = ? WHERE id = ? (no row: nothing happens).
update_job_status(table, job_id, status) ==
    [i \in DOMAIN table |->
        IF table[i].id = job_id THEN [table[i] EXCEPT !.status = status]
        ELSE table[i]]

\* ORDER BY created_at DESC; rows with the same created_at come out in the
\* order of the table scan, by ascending id.
Before(r1, r2) ==
    \/ r1.created_at > r2.created_at
    \/ r1.created_at = r2.created_at /\ r1.id < r2.id

\* DatabaseManager.get_active_jobs: SELECT * FROM scraping_jobs
\* WHERE status = 'active' ORDER BY created_at DESC, as a list of rows.
get_active_jobs(table) ==
    LET ids == {i \in DOMAIN table : table[i].status = "active"}
        rank(i) == Cardinality({j \in ids : Before(table[j], table[i])}) + 1
    IN [k \in 1..Cardinality(ids) |-> table[CHOOSE i \in ids : rank(i) = k]]

\* ------------------------------------------------------------- the tasks
\* The body of the try block of scrape_url_task: entering the
\* ScrapingManager context, the fetch, the insert.
\* [raised, exc] or [raised, fetched, record].
scrape_url_try(url, use_selenium, setup, outcome) ==
    IF ~SupportsWith("ScrapingManager")
    THEN [raised |-> TRUE, exc |-> "no context manager protocol"]
    ELSE [raised |-> FALSE, fetched |-> outcome,
          record |-> scrape(WebScraper(use_selenium, setup), url, outcome)]

\* Faulty variant: the retry test off by one.
may_retry_off_by_one(retries) == retries <= max_retries

\* self.request.retries < self.max_retries
may_retry(retries) == retries < max_retries

\* Faulty variant: linear instead of exponential backoff.
retry_countdown_linear(retries) == base_delay * (retries + 1)

\* countdown=60 * (2 ** self.request.retries)
retry_countdown(retries) == base_delay * Pow2(retries)

\* Faulty variant: the task that stored its error record reports success.
scrape_url_task_reports_success(table, url, use_selenium, retries, setup, outcome) ==
    LET try == scrape_url_try(url, use_selenium, setup, outcome)
        error_result == [url |-> url, title |-> "", content |-> "",
                         metadata |-> Metadata({}),
                         source |-> "celery_task", status |-> ErrorStatus(try.exc)]
    IN IF ~try.raised
       THEN LET ins == insert_scraped_data(table, try.record)
            IN [ends |-> "return", table |-> ins.table,
                exc |-> "", countdown |-> 0,
                value |-> [success |-> TRUE, record_id |-> ins.lastrowid,
                           url |-> url, result |-> try.record]]
       ELSE IF may_retry(retries)
       THEN [ends |-> "retry", table |-> table,
             exc |-> try.exc, countdown |-> retry_countdown(retries),
             value |-> None]
       ELSE LET ins == insert_scraped_data(table, error_result)
            IN [ends |-> "return", table |-> ins.table,
                exc |-> try.exc, countdown |-> 0,
                value |-> [success |-> TRUE, record_id |-> ins.lastrowid,
                           url |-> url, result |-> error_result]]

\* Faulty variant: the error record is stored on every failed attempt, also
\* before a retry.
scrape_url_task_records_each_failure(table, url, use_selenium, retries, setup, outcome) ==
    LET try == scrape_url_try(url, use_selenium, setup, outcome)
        error_result == [url |-> url, title |-> "", content |-> "",
                         metadata |-> Metadata({}),
                         source |-> "celery_task", status |-> ErrorStatus("failed")]
    IN IF ~try.raised
       THEN LET ins == insert_scraped_data(table, try.record)
            IN [ends |-> "return", table |-> ins.table,
                exc |-> "", countdown |-> 0,
                value |-> [success |-> TRUE, record_id |-> ins.lastrowid,
                           url |-> url, result |-> try.record]]
       ELSE IF may_retry(retries)
       THEN [ends |-> "retry", table |-> insert_scraped_data(table, error_result).table,
             exc |-> try.exc, countdown |-> retry_countdown(retries),
             value |-> None]
       ELSE [ends |-> "return", table |-> insert_scraped_data(table, error_result).table,
             exc |-> try.exc, countdown |-> 0,
             value |-> [success |-> FALSE, url |-> url, error |-> try.exc]]

\* The statements of scrape_url_task after the with block: the record the
\* scraper returned is inserted as it is and reported with success True.
store_and_report(table, url, result) ==
    LET ins == insert_scraped_data(table, result)
    IN [ends |-> "return", table |-> ins.table,
        exc |-> "", countdown |-> 0,
        value |-> [success |-> TRUE, record_id |-> ins.lastrowid,
                   url |-> url, result |-> result]]

\* One execution of scrape_url_task with the request's retry counter:
\* what it does to the store and how it ends (return value, or Retry).
scrape_url_task(table, url, use_selenium, retries, setup, outcome) ==
    LET try == scrape_url_try(url, use_selenium, setup, outcome)
    IN IF ~try.raised
       THEN store_and_report(table, url, try.record)
       ELSE IF may_retry(retries)
       THEN [ends |-> "retry", table |-> table,
             exc |-> try.exc, countdown |-> retry_countdown(retries),
             value |-> None]
       ELSE LET error_result == [url |-> url, title |-> "", content |-> "",
                                 metadata |-> Metadata({}),
                                 source |-> "celery_task",
                                 status |-> ErrorStatus(try.exc)]
                ins == insert_scraped_data(table, error_result)
            IN [ends |-> "return", table |-> ins.table,
                exc |-> try.exc, countdown |-> 0,
                value |-> [success |-> FALSE, url |-> url, error |-> try.exc]]

RECURSIVE InsertAll(_, _)
InsertAll(table, records) ==
    IF records = <<>> THEN table
    ELSE InsertAll(insert_scraped_data(table, Head(records)).table, Tail(records))

\* len([r for r in results if r['status'] == 'success'])
CountSuccess(results) == Cardinality({i \in DOMAIN results : results[i].status = SuccessStatus})
\* len([r for r in results if r['status'] != 'success'])
CountFailed(results) == Cardinality({i \in DOMAIN results : results[i].status # SuccessStatus})

\* The per-url try of scrape_multiple_urls_task for one url: the result of
\* the scraper is appended, then inserted; when the insert raises
\* (insertOk false) the handler appends an error result for the same url.
batch_url_results(results, url, result, insertOk) ==
    IF insertOk THEN Append(results, result)
    ELSE Append(Append(results, result),
                [url |-> url, title |-> "", content |-> "", metadata |-> Metadata({}),
                 source |-> "batch_task", status |-> ErrorStatus("insert failed")])

\* The results list after the loop over urls[i..].
RECURSIVE batch_results(_, _, _, _, _)
batch_results(results, urls, fetched, insertOk, i) ==
    IF i > Len(urls) THEN results
    ELSE batch_results(batch_url_results(results, urls[i], fetched[i], insertOk[i]),
                       urls, fetched, insertOk, i + 1)

\* Faulty variant: the outer handler reports every target as failed.
scrape_multiple_urls_task_counts_on_failure(table, urls, use_selenium, setup, outcomes) ==
    [ends |-> "return", table |-> table,
     value |-> [success |-> FALSE, error |-> "no context manager protocol",
                total_urls |-> Len(urls), successful |-> 0, failed |-> Len(urls),
                results |-> <<>>]]

\* One execution of scrape_multiple_urls_task: the ScrapingManager context
\* is entered outside the per-url try, so its failure reaches the outer
\* handler; inside, each url is scraped, appended and inserted in order.
scrape_multiple_urls_task(table, urls, use_selenium, setup, outcomes) ==
    IF ~SupportsWith("ScrapingManager")
    THEN [ends |-> "return", table |-> table,
          value |-> [success |-> FALSE, error |-> "no context manager protocol"]]
    ELSE LET results == [i \in DOMAIN urls |->
                            scrape(WebScraper(use_selenium, setup), urls[i], outcomes[i])]
         IN [ends |-> "return", table |-> InsertAll(table, results),
             value |-> [success |-> TRUE, total_urls |-> Len(urls),
                        successful |-> CountSuccess(results),
                        failed |-> CountFailed(results),
                        results |-> results]]

\* ----------------------------------------------------------- the scheduler
\* A recurrence string: its leading token and, after 'cron:', the
\* comma-separated fields (''.split(',') is ['']).
Named(name) == [head |-> name, fields |-> <<>>]
Cron(fields) == [head |-> "cron:", fields |-> fields]

CronExprs == { <<"0", "*", "*", "*", "0">>, <<"0", "12">> }
Schedules == {Named("hourly"), Named("daily"), Named("weekly"), Named("cron")}
             \cup {Cron(f) : f \in CronExprs}

\* The (target, schedule) requests given to schedule_url: every recurrence,
\* each with one of the targets.
ScheduleRequests ==
    {rq \in Targets \X Schedules :
        rq[1][2] <=> rq[2] \in {Named("daily"), Named("cron"), Cron(<<"0", "12">>)}}

Cadences == {"hourly", "daily", "weekly", "cron"}
\* Faulty variant: the key is built without the job id.
Key_without_job_id(cadence, job_id) == <<cadence, 0>>

\* f'scrape_{cadence}_{job_id}'
Key(cadence, job_id) == <<cadence, job_id>>

\* d[key] = entry
Put(d, key, entry) == [k \in DOMAIN d \cup {key} |-> IF k = key THEN entry ELSE d[k]]
\* del d[key]
Del(d, key) == [k \in DOMAIN d \ {key} |-> d[k]]

Entry(schedule, url, use_selenium) ==
    [task |-> "scheduler.scrape_url_task", schedule |-> schedule,
     args |-> <<url, use_selenium>>, queue |-> "scraping"]

_schedule_hourly(beat, url, job_id, use_selenium) ==
    Put(beat, Key("hourly", job_id), Entry([minute |-> "0"], url, use_selenium))

_schedule_daily(beat, url, job_id, use_selenium) ==
    Put(beat, Key("daily", job_id),
        Entry([hour |-> "0", minute |-> "0"], url, use_selenium))

\* Faulty variant: the weekly entry without its day_of_week.
_schedule_weekly_any_day(beat, url, job_id, use_selenium) ==
    Put(beat, Key("weekly", job_id),
        Entry([hour |-> "0", minute |-> "0"], url, use_selenium))

_schedule_weekly(beat, url, job_id, use_selenium) ==
    Put(beat, Key("weekly", job_id),
        Entry([day_of_week |-> "0", hour |-> "0", minute |-> "0"], url, use_selenium))

\* field if field != '*' else None
CronArg(field) == IF field # "*" THEN field ELSE "None"

\* Faulty variant: a spec that is not five fields is logged and dropped, no
\* trigger is registered in its place.
_schedule_cron_no_fallback(beat, url, job_id, schedule, use_selenium, crontabRaises) ==
    LET cron_parts == schedule.fields
    IN IF Len(cron_parts) = 5
       THEN IF crontabRaises THEN _schedule_hourly(beat, url, job_id, use_selenium)
            ELSE Put(beat, Key("cron", job_id),
                     Entry([minute |-> CronArg(cron_parts[1]), hour |-> CronArg(cron_parts[2]),
                            day |-> CronArg(cron_parts[3]), month |-> CronArg(cron_parts[4]),
                            day_of_week |-> CronArg(cron_parts[5])], url, use_selenium))
       ELSE beat

\* _schedule_cron: five fields go to crontab(minute=, hour=, day=, month=,
\* day_of_week=); fewer or more raise ValueError; any exception, also one
\* raised by the crontab constructor (crontabRaises), falls back to hourly.
_schedule_cron(beat, url, job_id, schedule, use_selenium, crontabRaises) ==
    LET cron_parts == schedule.fields
    IN IF Len(cron_parts) = 5 /\ ~crontabRaises
       THEN Put(beat, Key("cron", job_id),
                Entry([minute |-> CronArg(cron_parts[1]), hour |-> CronArg(cron_parts[2]),
                       day |-> CronArg(cron_parts[3]), month |-> CronArg(cron_parts[4]),
                       day_of_week |-> CronArg(cron_parts[5])], url, use_selenium))
       ELSE _schedule_hourly(beat, url, job_id, use_selenium)

\* The second half of schedule_url: the trigger is put into the beat
\* schedule under the key of the recurrence.
register_trigger(beat, url, job_id, schedule, use_selenium, crontabRaises) ==
    IF schedule = Named("hourly") THEN _schedule_hourly(beat, url, job_id, use_selenium)
    ELSE IF schedule = Named("daily") THEN _schedule_daily(beat, url, job_id, use_selenium)
    ELSE IF schedule = Named("weekly") THEN _schedule_weekly(beat, url, job_id, use_selenium)
    ELSE IF schedule.head = "cron:"
         THEN _schedule_cron(beat, url, job_id, schedule, use_selenium, crontabRaises)
    ELSE _schedule_hourly(beat, url, job_id, use_selenium)

\* ScrapingScheduler.schedule_url: [jobs, beat, job_id]
schedule_url(table, beat, url, schedule, use_selenium, crontabRaises, now) ==
    LET added == add_scraping_job(table, url, schedule, now)
        job_id == added.lastrowid
        registered == register_trigger(beat, url, job_id, schedule, use_selenium,
                                       crontabRaises)
    IN [jobs |-> added.table, beat |-> registered, job_id |-> job_id]

\* What one schedule_url call writes to the log, as <<level, message>>:
\* _schedule_cron logs the exception it falls back on, schedule_url logs
\* the job id; the else branch ("Default to hourly") logs nothing.
schedule_url_log(schedule, crontabRaises) ==
    (IF schedule.head = "cron:" /\ (Len(schedule.fields) # 5 \/ crontabRaises)
     THEN << <<"ERROR", "Error parsing cron schedule">> >>
     ELSE <<>>)
    \o << <<"INFO", "Scheduled URL">> >>

\* Faulty variant: the cron key is missing from the keys to remove.
schedule_keys_without_cron(job_id) ==
    << <<"hourly", job_id>>, <<"daily", job_id>>, <<"weekly", job_id>> >>

\* Faulty variant: del without the membership test raises KeyError on the first
\* missing key, and the keys after it stay.
RECURSIVE DelKeys_unguarded(_, _)
DelKeys_unguarded(beat, keys) ==
    IF keys = <<>> THEN [beat |-> beat, raised |-> FALSE]
    ELSE IF Head(keys) \notin DOMAIN beat THEN [beat |-> beat, raised |-> TRUE]
    ELSE DelKeys_unguarded(Del(beat, Head(keys)), Tail(keys))

\* Faulty variant: the beat schedule is cleared instead of the job's keys.
DelKeys_clears_schedule(beat, keys) == [beat |-> <<>>, raised |-> FALSE]

\* if key in self.celery_app.conf.beat_schedule
key_in(beat, key) == key \in DOMAIN beat
\* del self.celery_app.conf.beat_schedule[key]: [beat, raised]; KeyError
\* when the key is not (or no longer) there.
del_key(beat, key) ==
    IF key \in DOMAIN beat THEN [beat |-> Del(beat, key), raised |-> FALSE]
    ELSE [beat |-> beat, raised |-> TRUE]

\* for key in schedule_keys: if key in beat_schedule: del beat_schedule[key]
\* run by one caller with no other caller between its statements:
\* [beat, raised]; each del follows its own test, so none raises.
RECURSIVE DelKeys(_, _)
DelKeys(beat, keys) ==
    IF keys = <<>> THEN [beat |-> beat, raised |-> FALSE]
    ELSE IF key_in(beat, Head(keys))
         THEN LET deleted == del_key(beat, Head(keys))
              IN IF deleted.raised THEN deleted ELSE DelKeys(deleted.beat, Tail(keys))
         ELSE DelKeys(beat, Tail(keys))

schedule_keys(job_id) ==
    << Key("hourly", job_id), Key("daily", job_id),
       Key("weekly", job_id), Key("cron", job_id) >>

\* ScrapingScheduler.remove_scheduled_job: [jobs, beat, raised]; an
\* exception of its try block is logged and raised again.
remove_scheduled_job(table, beat, job_id) ==
    LET removed == DelKeys(beat, schedule_keys(job_id))
    IN [jobs |-> update_job_status(table, job_id, "inactive"),
        beat |-> removed.beat,
        raised |-> removed.raised]

\* ------------------------------------------- when a registered entry fires
\* Wall-clock times are sampled: every weekday (0 = Sunday), three hours
\* and three minutes of each; a slot is the index of a sample, slot 0 being
\* Sunday 00:00, over two weeks.
HourSamples == <<0, 12, 23>>
MinuteSamples == <<0, 30, 59>>
SlotsPerDay == Len(HourSamples) * Len(MinuteSamples)
SlotsPerWeek == 7 * SlotsPerDay
Horizon == 2 * SlotsPerWeek
TimeOf(slot) ==
    [day_of_week |-> (slot \div SlotsPerDay) % 7,
     hour |-> HourSamples[((slot \div Len(MinuteSamples)) % Len(HourSamples)) + 1],
     minute |-> MinuteSamples[(slot % Len(MinuteSamples)) + 1]]

\* A crontab argument that was not given is '*'.
CronField(schedule, name) == IF name \in DOMAIN schedule THEN schedule[name] ELSE "*"
\* The values a crontab field admits out of 0..max-1: all of them for '*'
\* (and for a None that was let through), the number written otherwise.
Expand(field, max) ==
    IF field \in {"*", "None"} THEN 0..(max - 1)
    ELSE {n \in 0..(max - 1) : ToString(n) = field}

\* crontab(minute=, hour=, day_of_week=) is due at a time whose minute, hour
\* and weekday are all admitted.
Fires(schedule, slot) ==
    LET t == TimeOf(slot)
    IN /\ t.minute \in Expand(CronField(schedule, "minute"), 60)
       /\ t.hour \in Expand(CronField(schedule, "hour"), 24)
       /\ t.day_of_week \in Expand(CronField(schedule, "day_of_week"), 7)

\* The first slot after ref at which the entry is due (Horizon if none).
RECURSIVE NextFireFrom(_, _)
NextFireFrom(schedule, slot) ==
    IF slot >= Horizon THEN Horizon
    ELSE IF Fires(schedule, slot) THEN slot
    ELSE NextFireFrom(schedule, slot + 1)
NextFire(schedule, ref) == NextFireFrom(schedule, ref + 1)

\* ScrapingScheduler.get_scheduled_jobs
get_scheduled_jobs(table) == get_active_jobs(table)

\* ------------------------------------------------------------------ state
VARIABLES
    jobs,           \* table scraping_jobs, in id order
    beat_schedule,  \* celery_app.conf.beat_schedule of the scheduling process
    tasks,          \* every task message sent to the broker, by task id
    scraped_data,   \* table scraped_data, in id order
    direct,         \* number of direct scrapes and direct inserts made
    lastScrape,     \* how the last WebScraper.scrape call ended
    calls,          \* the scheduler calls that are between two of their steps
    extracted,      \* the page last given to the scraper's extraction, and what it gave
    beat_process,   \* what the process started by celery_beat.py has loaded
    task_status,    \* the value the last get_task_status call returned
    errors          \* the exceptions scheduler calls have logged and raised

vars == <<jobs, beat_schedule, tasks, scraped_data, direct, lastScrape, calls, extracted,
          beat_process, task_status, errors>>

TaskIds == 1..Len(tasks)
JobIds == 1..Len(jobs)
\* Requests made so far, of every kind.
Ops == Len(jobs) + Len(tasks) + direct

\* A task message as apply_async sends it, with what the worker has
\* observed of it so far (the job whose trigger sent it, 0 for a call of
\* run_immediate_scrape or run_batch_scrape; runs, inserts, delays), the
\* value its body returned while the worker has not stored it yet, and the
\* state and result the result backend holds for it.
NewTask(name, urls, use_selenium, job) ==
    [name |-> name, urls |-> urls, use_selenium |-> use_selenium, job |-> job,
     retries |-> 0, phase |-> "queued", state |-> "PENDING", result |-> None,
     returned |-> None, runs |-> 0, inserts |-> 0, delays |-> <<>>]

\* celery.states.READY_STATES
READY_STATES == {"SUCCESS", "FAILURE", "REVOKED"}

\* celery_app.AsyncResult(task_id), read once: the state and result the
\* result backend holds for the id; an id it does not know is PENDING.
AsyncResult(task_id) ==
    IF task_id \in TaskIds
    THEN [status |-> tasks[task_id].state, result |-> tasks[task_id].result]
    ELSE [status |-> "PENDING", result |-> None]

\* A read of the result backend that raises.
BackendError == [status |-> "raise", result |-> None]

\* The attribute of task_result that get_task_status reads next, given what
\* its reads so far gave: .status, .ready(), .result when that ready() was
\* true, .ready() again; "return" after the last one, "except" after a read
\* that raised.
NextRead(reads) ==
    IF \E i \in DOMAIN reads : reads[i] = BackendError THEN "except"
    ELSE IF Len(reads) = 0 THEN "status"
    ELSE IF Len(reads) = 1 THEN "ready"
    ELSE IF Len(reads) = 2
         THEN (IF reads[2].status \in READY_STATES THEN "result" ELSE "ready")
    ELSE IF Len(reads) = 3 /\ reads[2].status \in READY_STATES THEN "ready"
    ELSE "return"

\* Faulty variant: the result is handed out only while the task is not ready.
get_task_status_result_swapped(task_id, reads) ==
    LET ready == reads[2].status \in {"SUCCESS", "FAILURE", "REVOKED"}
    IN [task_id |-> task_id, status |-> reads[1].status,
        result |-> IF ~ready THEN reads[2].result ELSE [tag |-> "None"],
        ready |-> reads[Len(reads)].status \in {"SUCCESS", "FAILURE", "REVOKED"}]

\* ScrapingScheduler.get_task_status, given what each of its reads of the
\* backend gave, in the order it makes them: status from the first, the
\* test of "result if ready() else None" from the second, the result from
\* the third (made only when the second was ready), ready from the last.
\* When a read raises, the except branch returns task_id, status 'error'
\* and the error text.
get_task_status(task_id, reads) ==
    IF \E i \in DOMAIN reads : reads[i] = BackendError
    THEN [task_id |-> task_id, status |-> "error", error |-> "backend unavailable"]
    ELSE [task_id |-> task_id, status |-> reads[1].status,
          result |-> IF reads[2].status \in READY_STATES THEN reads[3].result ELSE None,
          ready |-> reads[Len(reads)].status \in READY_STATES]

\* The reads of a get_task_status call during which the backend does not
\* change what it holds for the id.
QuietReads(task_id) ==
    LET meta == AsyncResult(task_id)
    IN IF meta.status \in READY_STATES THEN <<meta, meta, meta, meta>>
       ELSE <<meta, meta, meta>>

\* What the environment can answer during one run of a task body: the
\* driver setup and the network are only consulted once the
\* ScrapingManager context has been entered.
DriverEnv == IF SupportsWith("ScrapingManager") THEN DriverSetups ELSE {"create_raises"}
FetchEnv(urls) ==
    IF SupportsWith("ScrapingManager") THEN [DOMAIN urls -> FetchOutcomes]
    ELSE {[i \in DOMAIN urls |-> "ok"]}

\* The tasks a pool process has taken and whose body has not run yet.
Running == {t \in TaskIds : tasks[t].phase = "running"}
\* The tasks that hold a pool process: taken, and the state their body
\* ended in not stored yet.
Executing == {t \in TaskIds : tasks[t].phase \in {"running", "returned", "retrying"}}

\* A call of WebScraper.scrape as its caller sees it: the strategy asked
\* for, what the fetch did, and the record that came back.
Observe(use_selenium, record, outcome) ==
    [asked |-> use_selenium, url |-> record.url, source |-> record.source,
     metadata |-> record.metadata, fetch |-> outcome, ends |-> "return"]

\* Faulty variant: the beat loads a trigger for every stored job, whatever
\* its status, and sends a task for each.
start_beat_loads_every_job(table) ==
    [found |-> Len(get_scheduled_jobs(table)),
     schedule |-> <<>>,
     messages |-> [i \in DOMAIN table |->
                      NewTask("scrape_url_task", <<table[i].url>>, FALSE, table[i].id)]]

\* celery_beat.start_beat: a Celery app of its own is built, whose
\* beat_schedule is never written; scheduler.py is imported (its own
\* beat_schedule starts empty) and the active jobs of the store are counted
\* for the log; app.worker_main(['beat', ...]) then starts no beat service.
\* [found, schedule, messages]: no trigger is loaded, no message is sent.
start_beat(table) ==
    [found |-> Len(get_scheduled_jobs(table)),
     schedule |-> <<>>,
     messages |-> <<>>]

Init ==
    /\ jobs = <<>>
    /\ beat_schedule = <<>>
    /\ tasks = <<>>
    /\ scraped_data = <<>>
    /\ direct = 0
    /\ lastScrape = None
    /\ calls = {}
    /\ extracted = None
    /\ beat_process = None
    /\ task_status = None
    /\ errors = {}

\* ------------------------------------------------------------- operations
\* The scheduler calls take no lock and are no transaction: each database
\* statement, each update of the beat schedule and each read of the result
\* backend is a step of its own, between which other processes act.
Callers == 1..MaxCallers
\* The callers that are inside a scheduler call.
Busy == {call.caller : call \in calls}
\* pc and found are the place of a remove_scheduled_job call in its loop:
\* the index of the key in schedule_keys, and whether the test of line 230
\* found that key (the del of line 231 comes next).
Call(caller, op, job_id, url, schedule, use_selenium) ==
    [caller |-> caller, op |-> op, job_id |-> job_id, url |-> url,
     schedule |-> schedule, use_selenium |-> use_selenium, pc |-> 1, found |-> FALSE]

\* schedule_url, first step: job_id = self.db.add_scraping_job(url, schedule)
ScheduleUrlInsert(caller, url, schedule, use_selenium, now) ==
    /\ caller \notin Busy
    /\ LET added == add_scraping_job(jobs, url, schedule, now)
       IN /\ jobs' = added.table
          /\ calls' = calls \cup {Call(caller, "schedule_url", added.lastrowid, url,
                                       schedule, use_selenium)}
    /\ UNCHANGED <<beat_schedule, tasks, scraped_data, direct, lastScrape, extracted,
                   beat_process, task_status, errors>>

\* schedule_url, second step: self._schedule_...(url, job_id, use_selenium)
ScheduleUrlRegister(call, crontabRaises) ==
    /\ call \in calls
    /\ call.op = "schedule_url"
    /\ beat_schedule' = register_trigger(beat_schedule, call.url, call.job_id,
                                         call.schedule, call.use_selenium, crontabRaises)
    /\ calls' = calls \ {call}
    /\ UNCHANGED <<jobs, tasks, scraped_data, direct, lastScrape, extracted, beat_process,
                   task_status, errors>>

\* remove_scheduled_job, first step: self.db.update_job_status(job_id, 'inactive')
RemoveUpdateStatus(caller, job_id) ==
    /\ caller \notin Busy
    /\ jobs' = update_job_status(jobs, job_id, "inactive")
    /\ calls' = calls \cup {Call(caller, "remove_scheduled_job", job_id, "", Named(""), FALSE)}
    /\ UNCHANGED <<beat_schedule, tasks, scraped_data, direct, lastScrape, extracted,
                   beat_process, task_status, errors>>

\* The call goes on with the next key of schedule_keys, or returns after
\* the last one.
NextKey(call) ==
    IF call.pc < Len(schedule_keys(call.job_id))
    THEN (calls \ {call}) \cup {[call EXCEPT !.pc = call.pc + 1, !.found = FALSE]}
    ELSE calls \ {call}

\* remove_scheduled_job, in its loop: if key in self.celery_app.conf.beat_schedule
RemoveTestKey(call) ==
    /\ call \in calls
    /\ call.op = "remove_scheduled_job"
    /\ ~call.found
    /\ calls' = IF key_in(beat_schedule, schedule_keys(call.job_id)[call.pc])
                THEN (calls \ {call}) \cup {[call EXCEPT !.found = TRUE]}
                ELSE NextKey(call)
    /\ UNCHANGED <<jobs, beat_schedule, tasks, scraped_data, direct, lastScrape, extracted,
                   beat_process, task_status, errors>>

\* remove_scheduled_job, in its loop: del self.celery_app.conf.beat_schedule[key];
\* a KeyError is logged and raised again, which ends the call.
RemoveDelKey(call) ==
    /\ call \in calls
    /\ call.op = "remove_scheduled_job"
    /\ call.found
    /\ LET key == schedule_keys(call.job_id)[call.pc]
           deleted == del_key(beat_schedule, key)
       IN /\ beat_schedule' = deleted.beat
          /\ calls' = IF deleted.raised THEN calls \ {call} ELSE NextKey(call)
          /\ errors' = IF deleted.raised
                       THEN errors \cup {[op |-> call.op, job_id |-> call.job_id,
                                          error |-> <<"KeyError", key>>]}
                       ELSE errors
    /\ UNCHANGED <<jobs, tasks, scraped_data, direct, lastScrape, extracted, beat_process,
                   task_status>>

\* A new scheduling process imports scheduler.py:
\* celery_app.conf.beat_schedule = {}
Restart ==
    /\ beat_schedule' = <<>>
    /\ UNCHANGED <<jobs, tasks, scraped_data, direct, lastScrape, calls, extracted,
                   beat_process, task_status, errors>>

\* celery_beat.py is run.
StartBeat ==
    /\ LET r == start_beat(jobs)
       IN /\ beat_process' = [schedule |-> r.schedule]
          /\ tasks' = tasks \o r.messages
    /\ UNCHANGED <<jobs, beat_schedule, scraped_data, direct, lastScrape, calls, extracted,
                   task_status, errors>>

\* Faulty variant: the immediate scrape also stores a job for its target.
RunImmediateScrape_creates_job(url, use_selenium) ==
    /\ tasks' = Append(tasks, NewTask("scrape_url_task", <<url>>, use_selenium, 0))
    /\ jobs' = add_scraping_job(jobs, url, Named("hourly"), 1).table
    /\ UNCHANGED <<beat_schedule, scraped_data, direct, lastScrape, calls, extracted,
                   beat_process, task_status, errors>>

\* ScrapingScheduler.run_immediate_scrape: scrape_url_task.delay(url, use_selenium)
RunImmediateScrape(url, use_selenium) ==
    /\ tasks' = Append(tasks, NewTask("scrape_url_task", <<url>>, use_selenium, 0))
    /\ UNCHANGED <<jobs, beat_schedule, scraped_data, direct, lastScrape, calls, extracted,
                   beat_process, task_status, errors>>

\* ScrapingScheduler.run_batch_scrape: scrape_multiple_urls_task.delay(urls, use_selenium)
RunBatchScrape(urls, use_selenium) ==
    /\ tasks' = Append(tasks, NewTask("scrape_multiple_urls_task", urls, use_selenium, 0))
    /\ UNCHANGED <<jobs, beat_schedule, scraped_data, direct, lastScrape, calls, extracted,
                   beat_process, task_status, errors>>

\* Faulty variant: the worker leaves in the queue the messages for the
\* target of a removed job.
WorkerStart_drops_removed_jobs(t) ==
    /\ t \in TaskIds
    /\ tasks[t].phase = "queued"
    /\ \A job_id \in JobIds :
          (tasks[t].urls # <<>> /\ jobs[job_id].url = tasks[t].urls[1]) =>
              jobs[job_id].status = "active"
    /\ Cardinality(Executing) < Concurrency
    /\ tasks' = [tasks EXCEPT ![t].phase = "running"]
    /\ UNCHANGED <<jobs, beat_schedule, scraped_data, direct, lastScrape, calls, extracted,
                   beat_process, task_status, errors>>

\* A pool process of the worker takes a queued message (--concurrency=2).
WorkerStart(t) ==
    /\ t \in TaskIds
    /\ tasks[t].phase = "queued"
    /\ Cardinality(Executing) < Concurrency
    /\ tasks' = [tasks EXCEPT ![t].phase = "running"]
    /\ UNCHANGED <<jobs, beat_schedule, scraped_data, direct, lastScrape, calls, extracted,
                   beat_process, task_status, errors>>

\* What the worker has seen of a task after one more run of its body:
\* the rows the run added to scraped_data are counted on the table.
AfterRun(task, before, after) ==
    [task EXCEPT !.runs = task.runs + 1,
                 !.inserts = task.inserts + (Len(after) - Len(before))]

\* The body of scrape_url_task runs once: it commits its row and returns a
\* value, or self.retry sends the message again (retries + 1, with the
\* countdown) and raises Retry.  The backend still holds the state from
\* before the run.
RunScrapeUrlTask(t, setup, outcome) ==
    /\ t \in TaskIds
    /\ tasks[t].phase = "running"
    /\ tasks[t].name = "scrape_url_task"
    /\ LET r == scrape_url_task(scraped_data, tasks[t].urls[1], tasks[t].use_selenium,
                                tasks[t].retries, setup, outcome)
           task == AfterRun(tasks[t], scraped_data, r.table)
       IN /\ scraped_data' = r.table
          /\ tasks' = [tasks EXCEPT ![t] =
                IF r.ends = "retry"
                THEN [task EXCEPT !.retries = task.retries + 1, !.phase = "retrying",
                                  !.delays = Append(task.delays, r.countdown)]
                ELSE [task EXCEPT !.phase = "returned", !.returned = r.value]]
          /\ lastScrape' = IF r.ends = "return" /\ r.value.success
                           THEN Observe(tasks[t].use_selenium, r.value.result, outcome)
                           ELSE lastScrape
    /\ UNCHANGED <<jobs, beat_schedule, direct, calls, extracted, beat_process, task_status, errors>>

\* The body of scrape_multiple_urls_task runs once (no retry is declared).
RunScrapeMultipleUrlsTask(t, setup, outcomes) ==
    /\ t \in TaskIds
    /\ tasks[t].phase = "running"
    /\ tasks[t].name = "scrape_multiple_urls_task"
    /\ LET r == scrape_multiple_urls_task(scraped_data, tasks[t].urls,
                                          tasks[t].use_selenium, setup, outcomes)
           task == AfterRun(tasks[t], scraped_data, r.table)
           n == Len(tasks[t].urls)
       IN /\ scraped_data' = r.table
          /\ tasks' = [tasks EXCEPT ![t] =
                [task EXCEPT !.phase = "returned", !.returned = r.value]]
          /\ lastScrape' = IF r.value.success /\ n > 0
                           THEN Observe(tasks[t].use_selenium, r.value.results[n], outcomes[n])
                           ELSE lastScrape
    /\ UNCHANGED <<jobs, beat_schedule, direct, calls, extracted, beat_process, task_status, errors>>

\* The worker stores in the result backend how the body ended, after the
\* body has ended: SUCCESS with the value returned, or RETRY, the message
\* sent again then waiting in the queue.
StoreTaskState(t) ==
    /\ t \in TaskIds
    /\ tasks[t].phase \in {"returned", "retrying"}
    /\ tasks' = [tasks EXCEPT ![t] =
          IF tasks[t].phase = "retrying"
          THEN [tasks[t] EXCEPT !.phase = "queued", !.state = "RETRY"]
          ELSE [tasks[t] EXCEPT !.phase = "done", !.state = "SUCCESS",
                                !.result = tasks[t].returned, !.returned = None]]
    /\ UNCHANGED <<jobs, beat_schedule, scraped_data, direct, lastScrape, calls, extracted,
                   beat_process, task_status, errors>>

\* main.scrape_single_url: with WebScraper(...) as scraper: scraper.scrape(url),
\* then the insert when save_to_db (main.scrape_multiple_urls calls it once
\* for each of its urls).
ScrapeSingleUrl(url, use_selenium, save_to_db, setup, outcome) ==
    /\ SupportsWith("WebScraper")
    /\ LET result == scrape(WebScraper(use_selenium, setup), url, outcome)
       IN /\ scraped_data' = IF save_to_db
                             THEN insert_scraped_data(scraped_data, result).table
                             ELSE scraped_data
          /\ lastScrape' = Observe(use_selenium, result, outcome)
    /\ direct' = direct + 1
    /\ UNCHANGED <<jobs, beat_schedule, tasks, calls, extracted, beat_process, task_status, errors>>

\* The record demo.py stores.
sample_data ==
    [url |-> "demo", title |-> "Demo Page", content |-> "C", metadata |-> Metadata({"demo", "timestamp"}),
     source |-> "demo_script", status |-> SuccessStatus]

\* DatabaseManager.insert_scraped_data called by a script of its own
\* (demo.demo_database_operations).
InsertScrapedData(data) ==
    /\ scraped_data' = insert_scraped_data(scraped_data, data).table
    /\ direct' = direct + 1
    /\ UNCHANGED <<jobs, beat_schedule, tasks, lastScrape, calls, extracted, beat_process, task_status, errors>>

\* The behaviours explored: a call that adds a job, a task or a row of its
\* own is made only while the budget of calls allows it; the scheduling
\* process is single-threaded, so it is inside one scheduler call at a
\* time and is replaced by a new process only between two calls.
MayAdd == Ops < MaxOps
Idle == calls = {}

Next ==
    \/ /\ MayAdd /\ Idle
       /\ Len(jobs) < MaxJobs
       /\ \E rq \in ScheduleRequests, now \in Timestamps(jobs) :
             ScheduleUrlInsert(1, rq[1][1], rq[2], rq[1][2], now)
    \/ \E call \in calls, raises \in BOOLEAN : ScheduleUrlRegister(call, raises)
    \/ Idle /\ \E job_id \in 1..(MaxJobs + 1) : RemoveUpdateStatus(1, job_id)
    \/ \E call \in calls : RemoveTestKey(call)
    \/ \E call \in calls : RemoveDelKey(call)
    \/ Idle /\ Restart
    \/ StartBeat
    \/ MayAdd /\ \E tg \in Targets : RunImmediateScrape(tg[1], tg[2])
    \/ MayAdd /\ \E b \in Batches : RunBatchScrape(b[1], b[2])
    \/ \E t \in TaskIds : WorkerStart(t)
    \/ \E t \in TaskIds, setup \in DriverEnv :
          \E outcomes \in FetchEnv(tasks[t].urls) :
             RunScrapeUrlTask(t, setup, outcomes[1])
    \/ \E t \in TaskIds, setup \in DriverEnv :
          \E outcomes \in FetchEnv(tasks[t].urls) :
             RunScrapeMultipleUrlsTask(t, setup, outcomes)
    \/ \E t \in TaskIds : StoreTaskState(t)
    \/ /\ MayAdd
       /\ direct < MaxDirect
       /\ \E tg \in Targets, save \in BOOLEAN, setup \in DriverSetups,
             outcome \in FetchOutcomes :
                ScrapeSingleUrl(tg[1], tg[2], save, setup, outcome)
    \/ /\ MayAdd
       /\ direct < MaxDirect
       /\ InsertScrapedData(sample_data)

Spec == Init /\ [][Next]_vars

\* ------------------------------------------------------- concurrent callers
\* schedule_url and remove_scheduled_job run by up to MaxCallers threads on
\* one ScrapingScheduler, sharing its beat schedule: the steps of the calls
\* interleave, each thread being inside one call at a time.
ConcNext ==
    \/ /\ Len(jobs) < MaxJobs
       /\ \E caller \in Callers, rq \in ScheduleRequests, now \in Timestamps(jobs) :
             ScheduleUrlInsert(caller, rq[1][1], rq[2], rq[1][2], now)
    \/ \E call \in calls, raises \in BOOLEAN : ScheduleUrlRegister(call, raises)
    \/ \E caller \in Callers, job_id \in 1..MaxJobs : RemoveUpdateStatus(caller, job_id)
    \/ \E call \in calls : RemoveTestKey(call)
    \/ \E call \in calls : RemoveDelKey(call)

ConcSpec == Init /\ [][ConcNext]_vars

\* ------------------------------------------------------------ worker pool
\* One hourly job scheduled for a target, up to MaxTasks messages sent by
\* run_immediate_scrape for it, the worker started by celery_worker.py
\* running them, and the beat started beside it.
PoolNext ==
    \/ /\ jobs = <<>>
       /\ ScheduleUrlInsert(1, "a", Named("hourly"), FALSE, 1)
    \/ \E call \in calls : ScheduleUrlRegister(call, FALSE)
    \/ /\ Len(tasks) < MaxTasks
       /\ RunImmediateScrape("a", FALSE)
    \/ beat_process = None /\ StartBeat
    \/ \E t \in TaskIds : WorkerStart(t)
    \/ \E t \in TaskIds, setup \in DriverEnv :
          \E outcomes \in FetchEnv(tasks[t].urls) :
             RunScrapeUrlTask(t, setup, outcomes[1])
    \/ \E t \in TaskIds : StoreTaskState(t)

PoolSpec == Init /\ [][PoolNext]_vars

\* ------------------------------------------------------- removal of jobs
\* Jobs scheduled and removed by the scheduling process, one call after the
\* other, while result records are written to the store.
RemoveNext ==
    \/ /\ Idle
       /\ Len(jobs) < MaxJobs
       /\ \E rq \in ScheduleRequests, now \in Timestamps(jobs) :
             ScheduleUrlInsert(1, rq[1][1], rq[2], rq[1][2], now)
    \/ \E call \in calls, raises \in BOOLEAN : ScheduleUrlRegister(call, raises)
    \/ Idle /\ \E job_id \in 1..(MaxJobs + 1) : RemoveUpdateStatus(1, job_id)
    \/ \E call \in calls : RemoveTestKey(call)
    \/ \E call \in calls : RemoveDelKey(call)
    \/ /\ direct < MaxDirect
       /\ InsertScrapedData(sample_data)

RemoveSpec == Init /\ [][RemoveNext]_vars

\* ---------------------------------------------------------------- polling
\* get_task_status, first step: task_result = celery_app.AsyncResult(task_id)
\* (no read of the backend yet)
PollStart(task_id) ==
    /\ calls' = calls \cup {[op |-> "get_task_status", task_id |-> task_id, reads |-> <<>>]}
    /\ UNCHANGED <<jobs, beat_schedule, tasks, scraped_data, direct, lastScrape, extracted,
                   beat_process, task_status, errors>>

\* get_task_status, one read of the backend: what it holds for the id at
\* that moment, or an exception.
PollRead(call, backendOk) ==
    /\ call \in calls
    /\ call.op = "get_task_status"
    /\ NextRead(call.reads) \in {"status", "ready", "result"}
    /\ LET meta == IF backendOk THEN AsyncResult(call.task_id) ELSE BackendError
       IN calls' = (calls \ {call}) \cup {[call EXCEPT !.reads = Append(call.reads, meta)]}
    /\ UNCHANGED <<jobs, beat_schedule, tasks, scraped_data, direct, lastScrape, extracted,
                   beat_process, task_status, errors>>

\* get_task_status returns; the caller has the value, here kept with the
\* reads it was made from.
PollReturn(call) ==
    /\ call \in calls
    /\ call.op = "get_task_status"
    /\ NextRead(call.reads) \in {"return", "except"}
    /\ calls' = calls \ {call}
    /\ task_status' = [polled |-> call.reads,
                       value |-> get_task_status(call.task_id, call.reads)]
    /\ UNCHANGED <<jobs, beat_schedule, tasks, scraped_data, direct, lastScrape, extracted,
                   beat_process, errors>>

\* Up to MaxPolled tasks sent by run_immediate_scrape, the worker running
\* them, and a client polling task ids, known or not, one poll at a time.
PollNext ==
    \/ /\ Len(tasks) < MaxPolled
       /\ \E tg \in Targets : RunImmediateScrape(tg[1], tg[2])
    \/ \E t \in TaskIds : WorkerStart(t)
    \/ \E t \in TaskIds, setup \in DriverEnv :
          \E outcomes \in FetchEnv(tasks[t].urls) :
             RunScrapeUrlTask(t, setup, outcomes[1])
    \/ \E t \in TaskIds : StoreTaskState(t)
    \/ Idle /\ \E task_id \in 1..(MaxPolled + 1) : PollStart(task_id)
    \/ \E call \in calls, backendOk \in BOOLEAN : PollRead(call, backendOk)
    \/ \E call \in calls : PollReturn(call)

PollSpec == Init /\ [][PollNext]_vars

\* ------------------------------------------------------------- extraction
\* scrape_with_requests on a fetched page: content and metadata
ExtractWithRequests(page) ==
    /\ extracted' = [source |-> "requests", page |-> page,
                     content |-> _extract_content(page),
                     metadata |-> extract_links_images(page)]
    /\ UNCHANGED <<jobs, beat_schedule, tasks, scraped_data, direct, lastScrape, calls,
                   beat_process, task_status, errors>>

\* scrape_with_selenium on a loaded page: content and metadata
ExtractWithSelenium(page) ==
    /\ extracted' = [source |-> "selenium", page |-> page,
                     content |-> _extract_content_selenium(page),
                     metadata |-> extract_links_images_selenium(page)]
    /\ UNCHANGED <<jobs, beat_schedule, tasks, scraped_data, direct, lastScrape, calls,
                   beat_process, task_status, errors>>

\* The behaviours explored: one page is fetched and read.
PageNext ==
    \/ extracted = None /\ \E page \in Pages : ExtractWithRequests(page)
    \/ extracted = None /\ \E page \in Pages : ExtractWithSelenium(page)

PageSpec == Init /\ [][PageNext]_vars

\* One step of the worker on task t: a run of its body, or the store of
\* how the body ended.
RunTask(t) ==
    \/ \E setup \in DriverEnv, outcomes \in FetchEnv(tasks[t].urls) :
          \/ RunScrapeUrlTask(t, setup, outcomes[1])
          \/ RunScrapeMultipleUrlsTask(t, setup, outcomes)
    \/ StoreTaskState(t)

\* A worker that keeps taking messages from the queue and finishes the
\* bodies it started.
FairSpec ==
    /\ Spec
    /\ WF_vars(\E t \in TaskIds : WorkerStart(t))
    /\ WF_vars(\E t \in TaskIds : RunTask(t))

\* The worker pool with such a worker.
PoolFairSpec ==
    /\ PoolSpec
    /\ WF_vars(\E t \in TaskIds : WorkerStart(t))
    /\ WF_vars(\E t \in TaskIds : RunTask(t))

\* ----------------------------------------------------------------- claims
SingleTasks == {t \in TaskIds : tasks[t].name = "scrape_url_task"}
BatchTasks == {t \in TaskIds : tasks[t].name = "scrape_multiple_urls_task"}
Terminal(t) == tasks[t].phase = "done"
\* The body of the task has returned a value (stored by the worker or not yet).
Returned(t) == tasks[t].phase \in {"returned", "done"}
\* The value the body of the task returned.
TaskValue(t) == IF tasks[t].phase = "returned" THEN tasks[t].returned ELSE tasks[t].result

\* C1: scrape_url_task is retried at most max_retries (3) times: the retry
\* counter of a task never exceeds 3 and its body has run at most 4 times,
\* whatever state the task is in (each run but the one that returned ended
\* in a retry).
C1_RetriesBounded ==
    \A t \in SingleTasks :
        /\ tasks[t].retries <= 3
        /\ tasks[t].runs <= 4
        /\ tasks[t].runs = tasks[t].retries + (IF Returned(t) THEN 1 ELSE 0)

C1_Witness ==
    \E t \in SingleTasks : Terminal(t) /\ tasks[t].retries = 3 /\ tasks[t].runs = 4

\* C2: the k-th retry (k = 0, 1, 2 retries already made) is delayed by
\* 60 * 2^k seconds, so the delays of one task are 60, 120, 240, strictly
\* increasing, and every retry adds exactly one to the retry counter.
C2_Backoff ==
    \A t \in SingleTasks :
        /\ Len(tasks[t].delays) = tasks[t].retries
        /\ tasks[t].delays = SubSeq(<<60, 120, 240>>, 1, tasks[t].retries)
        /\ \A k \in 2..Len(tasks[t].delays) : tasks[t].delays[k] > tasks[t].delays[k - 1]

C2_Witness ==
    \E t \in SingleTasks : tasks[t].delays = <<60, 120, 240>>

\* The rows a failed scrape_url_task of url u leaves in the store.
ErrorRows(u) ==
    {i \in DOMAIN scraped_data :
        scraped_data[i].source = "celery_task" /\ scraped_data[i].url = u}
FailedTasks(u) ==
    {t \in SingleTasks : Returned(t) /\ ~TaskValue(t).success /\ tasks[t].urls[1] = u}

\* C3: a scrape_url_task that fails with its retries used up (retries =
\* max_retries) has inserted exactly one record for its target, with status
\* 'error: <cause>' and empty title and content, and has returned a value
\* with success=False (the task ends in SUCCESS, it did not raise).
C3_ExhaustedRecorded ==
    /\ \A t \in SingleTasks :
          (Returned(t) /\ ~TaskValue(t).success) =>
              /\ tasks[t].retries = max_retries
              /\ tasks[t].inserts = 1
              /\ Terminal(t) => tasks[t].state = "SUCCESS"
              /\ TaskValue(t).url = tasks[t].urls[1]
    /\ \A u \in Urls :
          /\ Cardinality(ErrorRows(u)) = Cardinality(FailedTasks(u))
          /\ \A i \in ErrorRows(u) :
                /\ Head(scraped_data[i].status) = "error:"
                /\ \E t \in FailedTasks(u) : scraped_data[i].status[2] = TaskValue(t).error
                /\ scraped_data[i].title = ""
                /\ scraped_data[i].content = ""

C3_Witness ==
    \E t \in SingleTasks :
        /\ Terminal(t) /\ ~tasks[t].result.success /\ tasks[t].retries = max_retries
        /\ ErrorRows(tasks[t].urls[1]) # {}

\* C4: a single-target task in a terminal state has caused exactly one
\* insert into the result store over all of its attempts, the one of the
\* attempt that returned, and a task all of whose attempts so far ended in
\* a retry has caused none.
C4_OneInsertPerTask ==
    \A t \in SingleTasks :
        /\ tasks[t].inserts = (IF Returned(t) THEN 1 ELSE 0)
        /\ Terminal(t) => tasks[t].inserts = 1

C4_Witness ==
    /\ \E t \in SingleTasks : Terminal(t) /\ tasks[t].runs > 1 /\ tasks[t].inserts = 1
    /\ \E t \in SingleTasks : ~Terminal(t) /\ tasks[t].retries > 0 /\ tasks[t].inserts = 0

\* C7: a finished batch task over several targets reports successful = the number of its targets
\* whose result status is 'success' and failed = the number of the others,
\* and it has inserted exactly one record per target.
C7_BatchAggregate ==
    \A t \in BatchTasks :
        (Terminal(t) /\ Len(tasks[t].urls) >= 2) =>
            /\ tasks[t].result.success
            /\ tasks[t].result.successful = CountSuccess(tasks[t].result.results)
            /\ tasks[t].result.failed = CountFailed(tasks[t].result.results)
            /\ tasks[t].result.successful + tasks[t].result.failed = Len(tasks[t].urls)
            /\ tasks[t].inserts = Len(tasks[t].urls)

\* C8: a finished batch task over several targets has fetched every target
\* of its list: its result holds one per-target result for each of them, in
\* order, whatever happened to the targets before it.
C8_BatchNotAborted ==
    \A t \in BatchTasks :
        (Terminal(t) /\ Len(tasks[t].urls) >= 2) =>
            /\ "results" \in DOMAIN tasks[t].result
            /\ Len(tasks[t].result.results) = Len(tasks[t].urls)
            /\ \A i \in DOMAIN tasks[t].urls :
                  tasks[t].result.results[i].url = tasks[t].urls[i]

\* C6: every task that was enqueued (by run_immediate_scrape or
\* run_batch_scrape; no trigger ever sends one) eventually is terminal, and
\* get_task_status called then reports ready=true with a result, under a worker
\* that keeps taking tasks from the queue: again and again the system is in
\* a state where every task enqueued so far is terminal and ready with a
\* result, so no task stays pending or retrying forever.
C6_EveryTaskFinishes ==
    []<>(\A t \in TaskIds :
            /\ Terminal(t)
            /\ get_task_status(t, QuietReads(t)).ready
            /\ get_task_status(t, QuietReads(t)).result # None)

C6_Witness ==
    \E t \in SingleTasks :
        /\ tasks[t].retries = max_retries
        /\ get_task_status(t, QuietReads(t)).ready
        /\ get_task_status(t, QuietReads(t)).result = tasks[t].result
        /\ get_task_status(t, QuietReads(t)).result # None

HasTrigger(beat, job_id) == \E k \in DOMAIN beat : k[2] = job_id
\* A remove_scheduled_job call for the job has not returned yet.
Removing(job_id) ==
    \E call \in calls : call.op = "remove_scheduled_job" /\ call.job_id = job_id
\* A schedule_url call for the job has not returned yet.
Scheduling(job_id) ==
    \E call \in calls : call.op = "schedule_url" /\ call.job_id = job_id

\* C9: removing a job leaves its status 'inactive' and no beat-schedule
\* entry with its id, under whichever key the entry was registered (hourly,
\* daily, weekly, cron, or hourly after a cron spec was demoted); so once
\* the remove call has returned no inactive job has a trigger registered.
C9_RemovedJobHasNoTrigger ==
    /\ \A job_id \in JobIds :
          LET r == remove_scheduled_job(jobs, beat_schedule, job_id)
          IN /\ r.jobs[job_id].status = "inactive"
             /\ ~HasTrigger(r.beat, job_id)
    /\ \A job_id \in JobIds :
          (jobs[job_id].status = "inactive" /\ ~Removing(job_id)) =>
              ~HasTrigger(beat_schedule, job_id)

C9_Witness ==
    /\ \E job_id \in JobIds :
          /\ ~Removing(job_id)
          /\ jobs[job_id].status = "inactive"
          /\ jobs[job_id].schedule.head = "cron:"
          /\ Len(jobs[job_id].schedule.fields) # 5
          /\ ~HasTrigger(beat_schedule, job_id)
    /\ \E job_id \in JobIds :
          jobs[job_id].status = "active" /\ HasTrigger(beat_schedule, job_id)

\* C10: remove_scheduled_job is idempotent: called again with the same job
\* id right after a first call, it raises nothing and leaves the job table
\* and the beat schedule as the first call left them, for scheduled job ids
\* and for an id that was never scheduled; and no call made one after the
\* other by the scheduling process has logged and raised an error.
C10_RemoveIdempotent ==
    /\ \A job_id \in 1..(MaxJobs + 1) :
          LET first == remove_scheduled_job(jobs, beat_schedule, job_id)
              second == remove_scheduled_job(first.jobs, first.beat, job_id)
          IN /\ ~first.raised /\ ~second.raised
             /\ second.jobs = first.jobs
             /\ second.beat = first.beat
             /\ job_id \notin JobIds => (first.jobs = jobs /\ first.beat = beat_schedule)
    /\ errors = {}

C10_Witness ==
    /\ \E job_id \in JobIds :
          jobs[job_id].status = "inactive" /\ ~HasTrigger(beat_schedule, job_id)
    /\ \E job_id \in JobIds : 
          /\ jobs[job_id].status = "active" /\ HasTrigger(beat_schedule, job_id)
          /\ remove_scheduled_job(jobs, beat_schedule, job_id).beat # beat_schedule

\* The tasks a trigger of job job_id has sent.
FiredTasks(job_id) == {t \in SingleTasks : tasks[t].job = job_id}

\* C11: once remove_scheduled_job(job_id) has returned (the job is
\* 'inactive' and the call is over), no step of the system, a start of the
\* beat included, sends a new task for that job: every task added to the
\* queue from then on belongs to another job or to none.
C11_NoFireAfterRemove ==
    [][\A job_id \in JobIds :
          (jobs[job_id].status = "inactive" /\ ~Removing(job_id)) =>
              \A t \in 1..Len(tasks') :
                  t > Len(tasks) => tasks'[t].job # job_id]_vars

\* A job was removed, its trigger is gone, and the beat has been started.
C11_Witness ==
    \E job_id \in JobIds :
        /\ jobs[job_id].status = "inactive"
        /\ ~Removing(job_id)
        /\ ~HasTrigger(beat_schedule, job_id)
        /\ beat_process # None
        /\ beat_process.schedule = <<>>
        /\ FiredTasks(job_id) = {}

\* The tasks sent for the target of job job_id.
TasksOfTarget(job_id) == {t \in SingleTasks : tasks[t].urls[1] = jobs[job_id].url}

\* C12: a task that was sent for the target of a job (no trigger ever sends
\* one, so: by run_immediate_scrape) is not cancelled by
\* remove_scheduled_job: no step of a remove call touches a task, and under
\* a worker that keeps taking tasks, the tasks for the targets of removed
\* jobs again and again are all terminal, not revoked, each with its one
\* result record written.
C12_DispatchedTaskStillRuns ==
    /\ [][(\E caller \in Callers, job_id \in 1..(MaxJobs + 1) :
                RemoveUpdateStatus(caller, job_id))
              \/ (\E call \in calls : RemoveTestKey(call) \/ RemoveDelKey(call))
          => tasks' = tasks /\ scraped_data' = scraped_data]_vars
    /\ []<>(\A job_id \in JobIds :
               jobs[job_id].status = "inactive" =>
                   \A t \in TasksOfTarget(job_id) :
                       /\ Terminal(t)
                       /\ tasks[t].state = "SUCCESS"
                       /\ tasks[t].inserts = 1)

\* The job was removed while a task for its target was still on its way.
C12_Witness ==
    \E job_id \in JobIds :
        /\ jobs[job_id].status = "inactive"
        /\ ~Removing(job_id)
        /\ \E t \in TasksOfTarget(job_id) : ~Terminal(t) /\ tasks[t].retries > 0

\* 'cron:' specs whose text does not split into exactly five fields.
MalformedCronSpecs ==
    {Cron(f) : f \in { <<"">>, <<"0", "12">>, <<"0", "*", "*", "*">>,
                       <<"0", "*", "*", "*", "0", "*">> }}
TriggersOf(beat, job_id) == {k \in DOMAIN beat : k[2] = job_id}

\* C13: schedule_url with a 'cron:' spec that has not exactly five fields
\* returns a new job id, stores the job as 'active' with the spec as given,
\* and registers exactly one trigger for it, the hourly one (minute 0) with
\* the url and strategy of the call, leaving every other trigger alone;
\* and a stored job with such a spec never has any other trigger than its
\* hourly one.
C13_MalformedCronFallsBackToHourly ==
    /\ \A tg \in Targets, schedule \in MalformedCronSpecs, raises \in BOOLEAN,
          now \in Timestamps(jobs) :
          LET r == schedule_url(jobs, beat_schedule, tg[1], schedule, tg[2], raises, now)
          IN /\ r.job_id = Len(jobs) + 1
             /\ Len(r.jobs) = Len(jobs) + 1
             /\ r.jobs[r.job_id].status = "active"
             /\ r.jobs[r.job_id].url = tg[1]
             /\ r.jobs[r.job_id].schedule = schedule
             /\ TriggersOf(r.beat, r.job_id) = {Key("hourly", r.job_id)}
             /\ r.beat[Key("hourly", r.job_id)] = Entry([minute |-> "0"], tg[1], tg[2])
             /\ \A k \in DOMAIN beat_schedule : r.beat[k] = beat_schedule[k]
    /\ \A job_id \in JobIds :
          jobs[job_id].schedule \in MalformedCronSpecs =>
              TriggersOf(beat_schedule, job_id) \subseteq {Key("hourly", job_id)}

C13_Witness ==
    \E job_id \in JobIds :
        /\ jobs[job_id].schedule \in MalformedCronSpecs
        /\ jobs[job_id].status = "active"
        /\ TriggersOf(beat_schedule, job_id) = {Key("hourly", job_id)}

\* The job ids of a list of job rows, in order.
IdsOf(rows) == [k \in DOMAIN rows |-> rows[k].id]
Listed(job_id) == \E k \in DOMAIN get_scheduled_jobs(jobs) : get_scheduled_jobs(jobs)[k].id = job_id

\* C14: schedule_url stores the new job with status 'active' and returns its
\* id, the job is in get_scheduled_jobs right after the call, and a listed
\* job stays listed over every step that is not the status update of
\* remove_scheduled_job of that very job (only a step that changes the job
\* table can unlist a job).
C14_ScheduledJobListedUntilRemoved ==
    /\ [](\A rq \in ScheduleRequests, raises \in BOOLEAN, now \in Timestamps(jobs) :
            LET r == schedule_url(jobs, beat_schedule, rq[1][1], rq[2], rq[1][2], raises, now)
                listed == get_scheduled_jobs(r.jobs)
            IN /\ r.job_id = Len(r.jobs)
               /\ r.job_id \notin JobIds
               /\ r.jobs[r.job_id].status = "active"
               /\ \E k \in DOMAIN listed : listed[k] = r.jobs[r.job_id])
    /\ [][jobs' # jobs =>
             /\ \A job_id \in JobIds :
                   (Listed(job_id) /\ ~Listed(job_id)') =>
                       \E caller \in Callers : RemoveUpdateStatus(caller, job_id)
             /\ \A job_id \in 1..Len(jobs') :
                   job_id \notin JobIds => Listed(job_id)']_vars

\* One job was removed and is gone from the list, another is still listed.
C14_Witness ==
    /\ \E job_id \in JobIds : jobs[job_id].status = "inactive" /\ ~Listed(job_id)
    /\ \E job_id \in JobIds : jobs[job_id].status = "active" /\ Listed(job_id)

\* C15: a stored job scheduled 'hourly' has a next_run, and it is the first
\* top-of-hour boundary (a multiple of 3600 seconds) after its created_at.
C15_HourlyNextRunSet ==
    \A job_id \in JobIds :
        jobs[job_id].schedule = Named("hourly") =>
            /\ jobs[job_id].next_run # "NULL"
            /\ jobs[job_id].next_run = (jobs[job_id].created_at \div 3600 + 1) * 3600

\* C18: the trigger cycle keeps a next_run for each active job and moves it
\* on with each fire: a job that stays active gets a next_run.
C18_FireAdvancesNextRun ==
    \A job_id \in 1..MaxJobs :
        (job_id \in JobIds /\ jobs[job_id].status = "active")
            ~> (/\ job_id \in JobIds
                /\ (jobs[job_id].status = "inactive" \/ jobs[job_id].next_run # "NULL"))

\* C19: a job fires when it is due and its last_run is written then: a job
\* that stays active and registered, with the beat started, comes to have a
\* last_run.
C19_FiredJobHasLastRun ==
    \A job_id \in 1..MaxJobs :
        (/\ job_id \in JobIds /\ jobs[job_id].status = "active"
         /\ HasTrigger(beat_schedule, job_id) /\ beat_process # None)
            ~> (/\ job_id \in JobIds
                /\ \/ jobs[job_id].status = "inactive"
                   \/ ~HasTrigger(beat_schedule, job_id)
                   \/ jobs[job_id].last_run # "NULL")

\* The boundary of a named cadence.
OnBoundary(cadence, t) ==
    CASE cadence = "hourly" -> t.minute = 0
      [] cadence = "daily" -> t.hour = 0 /\ t.minute = 0
      [] cadence = "weekly" -> t.day_of_week = 0 /\ t.hour = 0 /\ t.minute = 0
\* Reference times: Sunday 00:00, the sample after it, Wednesday 12:30 and
\* Saturday 23:59.
RefSlots == {0, 1, 3 * SlotsPerDay + 4, SlotsPerWeek - 1}

NamedCadences == {"hourly", "daily", "weekly"}
\* The crontab the scheduler registers for a named cadence.
RegisteredSchedule(cadence) ==
    LET beat == CASE cadence = "hourly" -> _schedule_hourly(<<>>, "a", 1, FALSE)
                  [] cadence = "daily" -> _schedule_daily(<<>>, "a", 1, FALSE)
                  [] cadence = "weekly" -> _schedule_weekly(<<>>, "a", 1, FALSE)
    IN beat[Key(cadence, 1)].schedule
\* The crontab is due exactly at the boundaries of the cadence, and from
\* every reference time its next fire comes strictly later, within a week,
\* on a boundary.
Aligned(cadence, schedule) ==
    /\ \A slot \in 0..(SlotsPerWeek - 1) :
          Fires(schedule, slot) <=> OnBoundary(cadence, TimeOf(slot))
    /\ \A ref \in RefSlots :
          LET next == NextFire(schedule, ref)
          IN /\ next > ref
             /\ next <= ref + SlotsPerWeek
             /\ OnBoundary(cadence, TimeOf(next))
AlignedCadences == {c \in NamedCadences : Aligned(c, RegisteredSchedule(c))}

\* C16: a trigger registered under a named cadence (hourly, daily, weekly)
\* carries the crontab of that cadence, which is due exactly at the
\* boundaries of the cadence (minute 0; 00:00; Sunday 00:00) and whose next
\* fire from every reference time comes strictly later on such a boundary.
C16_NamedCadenceOnBoundary ==
    \A key \in DOMAIN beat_schedule :
        key[1] \in NamedCadences =>
            /\ beat_schedule[key].schedule = RegisteredSchedule(key[1])
            /\ key[1] \in AlignedCadences

\* A weekly trigger whose next fire after Wednesday 12:30 is the Sunday
\* 00:00 of the week after, and a daily one firing on Thursday 00:00.
C16_Witness ==
    /\ \E key \in DOMAIN beat_schedule :
          /\ key[1] = "weekly"
          /\ NextFire(beat_schedule[key].schedule, 3 * SlotsPerDay + 4) = SlotsPerWeek
    /\ \E key \in DOMAIN beat_schedule :
          /\ key[1] = "daily"
          /\ NextFire(beat_schedule[key].schedule, 3 * SlotsPerDay + 4) = 4 * SlotsPerDay

\* C17: the trigger registered for a job whose spec is a five-field cron
\* spec with a literal weekday is due only at times of that weekday.
C17_CronWeekdayOnly ==
    \A job_id \in JobIds :
        LET f == jobs[job_id].schedule.fields
        IN (jobs[job_id].schedule.head = "cron:" /\ Len(f) = 5 /\ f[5] # "*") =>
              \A key \in TriggersOf(beat_schedule, job_id) :
                  \A slot \in 0..(SlotsPerWeek - 1) :
                      Fires(beat_schedule[key].schedule, slot) =>
                          TimeOf(slot).day_of_week \in Expand(f[5], 7)

\* C20: get_scheduled_jobs returns each job whose status is 'active' once
\* and no other job, and of any two jobs in the list the one created by
\* the later schedule_url call (the one with the larger id) comes first.
C20_ListedNewestFirst ==
    LET ids == IdsOf(get_scheduled_jobs(jobs))
    IN /\ {ids[k] : k \in DOMAIN ids} = {j \in JobIds : jobs[j].status = "active"}
       /\ \A a, b \in DOMAIN ids : a # b => ids[a] # ids[b]
       /\ \A a, b \in DOMAIN ids : ids[a] > ids[b] => a < b

\* C21: no step removes or rewrites the identity of a row of the job table:
\* the table never gets shorter, every stored job keeps its id, url,
\* schedule and creation time, and a job that is 'inactive' stays stored
\* and 'inactive'.
C21_JobsNeverDeleted ==
    [][/\ Len(jobs') >= Len(jobs)
       /\ \A job_id \in JobIds :
             /\ jobs'[job_id].id = job_id
             /\ jobs'[job_id].url = jobs[job_id].url
             /\ jobs'[job_id].schedule = jobs[job_id].schedule
             /\ jobs'[job_id].created_at = jobs[job_id].created_at
             /\ jobs[job_id].status = "inactive" => jobs'[job_id].status = "inactive"]_vars

\* The first job was removed and is still stored, a later job was added.
C21_Witness ==
    /\ Len(jobs) = 2
    /\ jobs[1].id = 1 /\ jobs[1].status = "inactive"
    /\ jobs[2].status = "active"

\* C22: a get_task_status call only reads the backend: none of its steps
\* changes a task, a job or a record; and the value it returns is
\* ready=false with result=None (the task pending, running or waiting for a
\* retry), or ready=true with the value the task returned.
C22_PollReadOnly ==
    /\ [](task_status # None /\ "ready" \in DOMAIN task_status.value =>
            LET s == task_status.value
            IN \/ ~s.ready /\ s.result = None /\ s.status \in {"PENDING", "RETRY"}
               \/ /\ s.ready /\ s.status = "SUCCESS"
                  /\ s.result # None
                  /\ s.result = AsyncResult(s.task_id).result)
    /\ [][(\/ \E task_id \in 1..(MaxPolled + 1) : PollStart(task_id)
           \/ \E call \in calls, backendOk \in BOOLEAN : PollRead(call, backendOk)
           \/ \E call \in calls : PollReturn(call))
          => UNCHANGED <<jobs, beat_schedule, tasks, scraped_data>>]_vars

\* C23: whatever the task id (one of a known task or not) and whether the
\* reads of the result backend work or raise, the value get_task_status
\* returns has the fields status, ready and result.
C23_StatusFieldsAlways ==
    \A task_id \in TaskIds \cup {Len(tasks) + 1} :
        \A reads \in {QuietReads(task_id), <<BackendError>>,
                      <<AsyncResult(task_id), BackendError>>} :
            {"status", "ready", "result"} \subseteq DOMAIN get_task_status(task_id, reads)

\* C24: the result store is append-only: insert_scraped_data adds exactly
\* one row, whose id is new and is the value returned, and keeps every row
\* there was; and over every step the rows stored before are still there,
\* unchanged and in place, so the row count never decreases.
C24_StoreAppendOnly ==
    /\ [](\A u \in Urls, outcome \in FetchOutcomes :
            LET ins == insert_scraped_data(scraped_data, scrape_with_requests(u, outcome))
            IN /\ Len(ins.table) = Len(scraped_data) + 1
               /\ ins.lastrowid = ins.table[Len(ins.table)].id
               /\ \A i \in DOMAIN scraped_data :
                     ins.table[i] = scraped_data[i] /\ scraped_data[i].id # ins.lastrowid)
    /\ [][/\ Len(scraped_data') >= Len(scraped_data)
          /\ \A i \in DOMAIN scraped_data : scraped_data'[i] = scraped_data[i]]_vars

\* Two rows are stored, from a direct scrape and from a task.
C24_Witness ==
    /\ Len(scraped_data) = 2
    /\ scraped_data[1].id = 1 /\ scraped_data[2].id = 2
    /\ \E i \in DOMAIN scraped_data : scraped_data[i].source = "celery_task"
    /\ \E i \in DOMAIN scraped_data : scraped_data[i].source # "celery_task"

\* C25: when a scraper created with use_selenium=True has fetched with the
\* static strategy (its driver setup failed), the metadata of its result
\* tells it apart from the result a scraper created static gets for the
\* same url and fetch.
C25_DegradeRecorded ==
    (lastScrape # None /\ lastScrape.asked /\ lastScrape.source = "requests") =>
        LET static == scrape(WebScraper(FALSE, "ok"), lastScrape.url, lastScrape.fetch)
        IN /\ static.source = "requests"
           /\ lastScrape.metadata # static.metadata

ResultFields == {"url", "title", "content", "metadata", "source", "status"}
WellFormedStatus(status) == status = SuccessStatus \/ Head(status) = "error:"

\* C26: every result of WebScraper.scrape, for either strategy asked for,
\* with the driver set up or not, and for every outcome of the fetch, has
\* exactly the fields url, title, content, metadata, source and status,
\* with status 'success' or beginning with 'error:'; and so has every row
\* of the result store.
C26_SameShape ==
    /\ \A tg \in Targets, setup \in DriverSetups, outcome \in FetchOutcomes :
          LET result == scrape(WebScraper(tg[2], setup), tg[1], outcome)
          IN /\ DOMAIN result = ResultFields
             /\ result.url = tg[1]
             /\ WellFormedStatus(result.status)
             /\ result.source \in {"requests", "selenium"}
    /\ \A i \in DOMAIN scraped_data :
          /\ ResultFields \subseteq DOMAIN scraped_data[i]
          /\ WellFormedStatus(scraped_data[i].status)

\* The result of a dynamic fetch that failed is stored.
C26_Witness ==
    /\ lastScrape # None
    /\ lastScrape.source = "selenium" /\ lastScrape.fetch # "ok"
    /\ \E i \in DOMAIN scraped_data :
          /\ scraped_data[i].source = "selenium"
          /\ Head(scraped_data[i].status) = "error:"
          /\ DOMAIN scraped_data[i] = ResultFields \cup {"id"}

\* C29: a step that sends a task outside the trigger cycle (by
\* run_immediate_scrape or run_batch_scrape: the new task belongs to no
\* job) sends exactly one task, whose id is the next task id and which
\* starts pending, and leaves the job table, the beat schedule and the
\* result store as they were.
C29_ImmediateEnqueuesOnly ==
    [][(Len(tasks') > Len(tasks) /\ tasks'[Len(tasks')].job = 0) =>
          /\ Len(tasks') = Len(tasks) + 1
          /\ \A t \in TaskIds : tasks'[t] = tasks[t]
          /\ tasks'[Len(tasks')].state = "PENDING"
          /\ tasks'[Len(tasks')].phase = "queued"
          /\ jobs' = jobs
          /\ beat_schedule' = beat_schedule
          /\ scraped_data' = scraped_data]_vars

\* A task was sent outside the trigger cycle while a job is registered.
C29_Witness ==
    /\ \E t \in TaskIds : tasks[t].job = 0
    /\ \E job_id \in JobIds : HasTrigger(beat_schedule, job_id)

\* C30: every job stored with status 'active' (its schedule_url call
\* returned) has a trigger in the beat schedule of the scheduling process,
\* also right after a process start, and in the schedule of the beat
\* process once that has been started.
C30_ActiveJobHasTrigger ==
    \A job_id \in JobIds :
        (jobs[job_id].status = "active" /\ ~Scheduling(job_id)) =>
            /\ HasTrigger(beat_schedule, job_id)
            /\ beat_process # None => HasTrigger(beat_process.schedule, job_id)

C28_Serialized ==
    /\ calls = {} =>
          \A job_id \in JobIds :
              jobs[job_id].status = "inactive" => ~HasTrigger(beat_schedule, job_id)
    /\ errors = {}

\* C31: the beat schedule schedule_url leaves holds exactly one entry for
\* the job id it returns, with the (url, use_selenium) of the call as args;
\* the id is a new one and the entry is added under a key no entry had, so
\* every entry registered before is still there unchanged; and at any time
\* a stored job has at most one entry, which carries the url of its job.
\* (The crontab constructor is consulted for 'cron:' specs only, and the
\* second of the call only goes into created_at.)
C31_OneEntryPerJob ==
    /\ \A rq \in ScheduleRequests :
          \A raises \in (IF rq[2].head = "cron:" THEN BOOLEAN ELSE {FALSE}) :
          LET now == CHOOSE n \in Timestamps(jobs) : \A m \in Timestamps(jobs) : n <= m
              r == schedule_url(jobs, beat_schedule, rq[1][1], rq[2], rq[1][2], raises, now)
          IN /\ r.job_id \notin JobIds
             /\ Cardinality(TriggersOf(r.beat, r.job_id)) = 1
             /\ \A k \in TriggersOf(r.beat, r.job_id) : r.beat[k].args = <<rq[1][1], rq[1][2]>>
             /\ \A k \in DOMAIN beat_schedule :
                   k \in DOMAIN r.beat /\ r.beat[k] = beat_schedule[k]
             /\ Cardinality(DOMAIN r.beat) = Cardinality(DOMAIN beat_schedule) + 1
    /\ \A k \in DOMAIN beat_schedule :
          k[2] \in JobIds /\ beat_schedule[k].args[1] = jobs[k[2]].url
    /\ \A job_id \in JobIds : Cardinality(TriggersOf(beat_schedule, job_id)) <= 1

\* The same url was scheduled twice: two jobs, two entries.
C31_Witness ==
    \E j1 \in JobIds, j2 \in JobIds :
        /\ j1 # j2
        /\ jobs[j1].url = jobs[j2].url
        /\ Cardinality(TriggersOf(beat_schedule, j1)) = 1
        /\ Cardinality(TriggersOf(beat_schedule, j2)) = 1
        /\ TriggersOf(beat_schedule, j1) # TriggersOf(beat_schedule, j2)

\* C32: scrape_url_task reports success=True only for a record with status
\* 'success': a task that returned success=True has stored, under the
\* record id it reports, a record with status 'success'; a task that
\* returned success=False has stored a record with an error status; and
\* every record with an error status a task stored belongs to a task that
\* returned success=False.
C32_SuccessOnlyForSuccessRecord ==
    /\ \A t \in SingleTasks :
          Returned(t) =>
              /\ tasks[t].inserts = 1
              /\ TaskValue(t).success =>
                    /\ TaskValue(t).record_id \in DOMAIN scraped_data
                    /\ scraped_data[TaskValue(t).record_id].status = SuccessStatus
                    /\ TaskValue(t).result.status = SuccessStatus
              /\ ~TaskValue(t).success =>
                    \E i \in ErrorRows(tasks[t].urls[1]) :
                        scraped_data[i].status = ErrorStatus(TaskValue(t).error)
    /\ \A u \in Urls :
          /\ Cardinality(ErrorRows(u)) = Cardinality(FailedTasks(u))
          /\ \A i \in ErrorRows(u) : scraped_data[i].status # SuccessStatus

\* A task stored a record with an error status and reported success=False.
C32_Witness ==
    \E t \in SingleTasks :
        /\ Returned(t)
        /\ ~TaskValue(t).success
        /\ \E i \in ErrorRows(tasks[t].urls[1]) :
              /\ scraped_data[i].status = ErrorStatus(TaskValue(t).error)
              /\ scraped_data[i].status # SuccessStatus

\* C33: the value of a finished batch task is an aggregate with successful +
\* failed = total_urls = the number of targets given and one result per
\* target in input order; and the results list the per-target loop builds
\* has one entry per target also when the insert of a result fails.
C33_AggregateCounts ==
    /\ \A t \in BatchTasks :
          Terminal(t) =>
              /\ {"total_urls", "successful", "failed", "results"} \subseteq DOMAIN tasks[t].result
              /\ tasks[t].result.total_urls = Len(tasks[t].urls)
              /\ tasks[t].result.successful + tasks[t].result.failed = Len(tasks[t].urls)
              /\ Len(tasks[t].result.results) = Len(tasks[t].urls)
              /\ \A i \in DOMAIN tasks[t].urls :
                    tasks[t].result.results[i].url = tasks[t].urls[i]
    /\ \A urls \in UrlLists :
          \A insertOk \in [DOMAIN urls -> BOOLEAN] :
             LET fetched == [i \in DOMAIN urls |-> scrape_with_requests(urls[i], "ok")]
                 results == batch_results(<<>>, urls, fetched, insertOk, 1)
             IN /\ Len(results) = Len(urls)
                /\ CountSuccess(results) + CountFailed(results) = Len(urls)

\* C34: the terminal value of scrape_multiple_urls_task has success=True
\* exactly when the per-target loop was reached and completed, whatever the
\* per-target outcomes, and then carries the counts and the results; it has
\* success=False only when an exception escaped the per-target handling
\* (entering the ScrapingManager context raised), and then it carries
\* success and an error text and nothing else.
\* Checked on the value of every finished batch task, and on the value
\* the batch task being executed returns whatever the driver setup and the
\* fetches do.
C34_BatchTerminalValue ==
    /\ \A t \in BatchTasks :
          Terminal(t) =>
              LET v == tasks[t].result
              IN IF v.success
                 THEN /\ SupportsWith("ScrapingManager")
                      /\ DOMAIN v = {"success", "total_urls", "successful", "failed", "results"}
                 ELSE /\ ~SupportsWith("ScrapingManager")
                      /\ DOMAIN v = {"success", "error"}
    /\ \A t \in BatchTasks \cap Running, setup \in DriverSetups :
          \A outcomes \in [DOMAIN tasks[t].urls -> FetchOutcomes] :
             LET r == scrape_multiple_urls_task(scraped_data, tasks[t].urls,
                                                tasks[t].use_selenium, setup, outcomes)
             IN /\ r.ends = "return"
                /\ r.value.success <=> SupportsWith("ScrapingManager")
                /\ ~r.value.success => DOMAIN r.value = {"success", "error"}

\* A batch over two targets has finished with success=False and an error
\* text: entering the context raised before the loop.
C34_Witness ==
    \E t \in BatchTasks :
        /\ Terminal(t)
        /\ Len(tasks[t].urls) = 2
        /\ ~tasks[t].result.success
        /\ "error" \in DOMAIN tasks[t].result
        /\ tasks[t].inserts = 0

\* C35: the body of a task the worker is executing enters the
\* ScrapingManager context without error: whatever the driver setup and the
\* network do, scrape_url_task does not raise before its fetch and
\* scrape_multiple_urls_task reaches its per-target loop.
C35_ContextEntered ==
    \A t \in Running, setup \in DriverSetups :
        IF tasks[t].name = "scrape_url_task"
        THEN \A outcome \in FetchOutcomes :
                ~scrape_url_try(tasks[t].urls[1], tasks[t].use_selenium, setup,
                                outcome).raised
        ELSE \A outcomes \in [DOMAIN tasks[t].urls -> FetchOutcomes] :
                scrape_multiple_urls_task(scraped_data, tasks[t].urls, tasks[t].use_selenium,
                                          setup, outcomes).value.success

\* Recurrence strings that are neither hourly, daily, weekly nor 'cron:...'.
UnknownSchedules == {Named("cron"), Named("monthly"), Named("")}

\* C36: schedule_url with a recurrence string that is neither hourly,
\* daily, weekly nor prefixed 'cron:' stores the job as active, registers
\* the hourly trigger for it, and writes a warning or an error to the log
\* that tells of the demotion.
C36_UnknownRecurrenceDemotionLogged ==
    \A tg \in Targets, schedule \in UnknownSchedules, raises \in BOOLEAN,
       now \in Timestamps(jobs) :
        LET r == schedule_url(jobs, beat_schedule, tg[1], schedule, tg[2], raises, now)
            log == schedule_url_log(schedule, raises)
        IN /\ r.jobs[r.job_id].status = "active"
           /\ TriggersOf(r.beat, r.job_id) = {Key("hourly", r.job_id)}
           /\ r.beat[Key("hourly", r.job_id)] = Entry([minute |-> "0"], tg[1], tg[2])
           /\ \E i \in DOMAIN log : log[i][1] \in {"WARNING", "ERROR"}

\* C37: remove_scheduled_job(job_id) changes only the status of that job
\* and the beat-schedule entries of that job: every other row and the
\* job's own url, schedule, created_at and last_run are as before, every
\* entry of another job is still registered unchanged and no entry is
\* added; and so does each of its steps, the status update, the test of a
\* key and the deletion of a key, none of which changes a result record.
C37_RemoveTouchesOnlyItsJob ==
    /\ [](\A job_id \in 1..(MaxJobs + 1) :
            LET r == remove_scheduled_job(jobs, beat_schedule, job_id)
            IN /\ DOMAIN r.jobs = DOMAIN jobs
               /\ \A j \in JobIds :
                     r.jobs[j] = IF j = job_id THEN [jobs[j] EXCEPT !.status = "inactive"]
                                 ELSE jobs[j]
               /\ DOMAIN r.beat = {k \in DOMAIN beat_schedule : k[2] # job_id}
               /\ \A k \in DOMAIN r.beat : r.beat[k] = beat_schedule[k])
    /\ [][\A caller \in Callers, job_id \in 1..(MaxJobs + 1) :
             RemoveUpdateStatus(caller, job_id) =>
                 /\ scraped_data' = scraped_data
                 /\ beat_schedule' = beat_schedule
                 /\ \A j \in JobIds : j # job_id => jobs'[j] = jobs[j]]_vars
    /\ [][\A call \in calls :
             (RemoveTestKey(call) \/ RemoveDelKey(call)) =>
                 /\ scraped_data' = scraped_data
                 /\ jobs' = jobs
                 /\ DOMAIN beat_schedule' \subseteq DOMAIN beat_schedule
                 /\ \A k \in DOMAIN beat_schedule :
                       k[2] # call.job_id =>
                           k \in DOMAIN beat_schedule' /\ beat_schedule'[k] = beat_schedule[k]]_vars

\* One of two scheduled jobs was removed: it is inactive without trigger,
\* the other is active, as stored, with its trigger, and the result record
\* written before is in the store as it was inserted.
C37_Witness ==
    \E j1 \in JobIds, j2 \in JobIds :
        /\ calls = {}
        /\ jobs[j1].status = "inactive"
        /\ ~HasTrigger(beat_schedule, j1)
        /\ jobs[j2].status = "active"
        /\ HasTrigger(beat_schedule, j2)
        /\ Len(scraped_data) = 1
        /\ scraped_data[1].url = sample_data.url
        /\ scraped_data[1].status = sample_data.status

\* The text of a node as each strategy reads it.
TextOf(source, node) == IF source = "requests" THEN get_text(node) ELSE element_text(node)
\* The priority order of the content regions.
PriorityOrder ==
    <<"main", "article", ".content", ".main-content",
      "#content", "#main", ".post-content", ".entry-content">>

\* C38: the content of a result is the text of the element matched by the
\* first selector of main, article, .content, .main-content, #content,
\* #main, .post-content, .entry-content that matches an element of the
\* page, and the text of the whole document when none matches, under both
\* strategies.
C38_ContentByPriority ==
    extracted # None =>
        LET matching == {i \in DOMAIN PriorityOrder : PriorityOrder[i] \in extracted.page.matches}
        IN extracted.content =
              IF matching = {} THEN TextOf(extracted.source, "document")
              ELSE TextOf(extracted.source,
                          PriorityOrder[CHOOSE i \in matching : \A j \in matching : i <= j])

\* The dynamic strategy read a page with an article and a #main element but
\* no main element: the content is the article's text.
C38_Witness ==
    /\ extracted # None
    /\ extracted.source = "selenium"
    /\ extracted.page.matches = {"article", "#main", ".entry-content"}
    /\ extracted.content = element_text("article")

\* The first ten of the elements that have the attribute, in document order.
FirstTenWithAttribute(elements) ==
    LET with == SelectSeq(elements, LAMBDA e : e # 0)
    IN [i \in 1..(IF Len(with) < 10 THEN Len(with) ELSE 10) |-> with[i]]

\* C39: under both strategies metadata['links'] and metadata['images'] hold
\* at most 10 entries each: the first 10 elements with an href (a src) of
\* the page in document order, all of them when there are fewer than 10.
C39_FirstTenLinksAndImages ==
    extracted # None =>
        /\ Len(extracted.metadata.links) <= 10
        /\ Len(extracted.metadata.images) <= 10
        /\ extracted.metadata.links = FirstTenWithAttribute(extracted.page.anchors)
        /\ extracted.metadata.images = FirstTenWithAttribute(extracted.page.imgs)

====
